---- MODULE Spec2Model ----
(***************************************************************************)
(* Railway traffic simulation (src/Dynamic/app.py): the shared store       *)
(* simulation_state, the tick engine simulation_loop, the dispatcher       *)
(* dispatcher_loop and the snapshot readers get_current_state / get_path,  *)
(* all synchronised by the single lock state_lock.                         *)
(*                                                                         *)
(* Arithmetic.  The program computes in floating point; the model computes *)
(* in integers and keeps every comparison of the program exact:            *)
(*   - speed_kmh is a whole number of km/h;                                *)
(*   - position_km is held in units of 1/18 m, so that one tick at v km/h  *)
(*     (v * 1/3600 km = v * 5/18 m) advances the position by exactly 5*v;  *)
(*   - braking_rate is held in tenths of m/s^2 (0.6 -> 6, 0.8 -> 8);       *)
(*   - a braking distance (v/3.6)^2 / (2*b) equals 625*v^2 / (90*b10)      *)
(*     position units; it is carried as the numerator 625*v^2 over the     *)
(*     denominator BrakeScale(b10) = 90*b10, and every comparison is made  *)
(*     after multiplying through by that denominator.                      *)
(* The one rounding of the model: the governor's square root is rounded    *)
(* down to a whole km/h.                                                   *)
(***************************************************************************)
EXTENDS Integers, Sequences, FiniteSets, TLC

\* ---------------------------------------------------------------- bounds
MaxTicks == 4
MaxQueries == 2
MaxRunTicks == 14
MaxScenarioTicks == 2

\* ------------------------------------------------------ program constants
SAFETY_MARGIN_METERS == 200
ACCELERATION_KMH_PER_TICK == 10
TICK_RATE_SECONDS == 1

UnitsPerMetre == 18

None == "None"

\* dict insertion order of simulation_state['trains']
TrainOrder ==
  << "Goods_301", "Goods_302", "Express_102", "Goods_303",
     "Local_201", "Local_202", "Express_101" >>

Ids == { TrainOrder[k] : k \in 1..Len(TrainOrder) }

Index(id) == CHOOSE k \in 1..Len(TrainOrder) : TrainOrder[k] = id

Train(id, target, max, brake, prio) ==
  [ id |-> id, position_km |-> 0, speed_kmh |-> 0, target_speed_kmh |-> target,
    max_speed_kmh |-> max, braking_rate |-> brake, priority |-> prio,
    dispatched |-> FALSE ]

InitialTrains ==
  [ id \in Ids |->
      CASE id = "Goods_301"   -> Train(id, 30, 60, 6, 3)
        [] id = "Goods_302"   -> Train(id, 30, 60, 6, 3)
        [] id = "Express_102" -> Train(id, 90, 120, 8, 1)
        [] id = "Goods_303"   -> Train(id, 30, 60, 6, 3)
        [] id = "Local_201"   -> Train(id, 40, 80, 8, 2)
        [] id = "Local_202"   -> Train(id, 40, 80, 8, 2)
        [] id = "Express_101" -> Train(id, 90, 120, 8, 1) ]

InitialState == [ trains |-> InitialTrains, occupied_tracks |-> << >> ]

dispatch_sequence ==
  << "Express_101", "Local_201", "Local_202", "Goods_301",
     "Express_102", "Goods_302", "Goods_303" >>

Min(a, b) == IF a < b THEN a ELSE b

\* ------------------------------------------------------------- kinematics
\* denominator of a braking distance expressed in position units
BrakeScale(braking_rate) == 90 * braking_rate

\* numerator of (speed_kmh / 3.6)^2 / (2 * braking_rate), over BrakeScale
calculate_braking_distance(speed_kmh, braking_rate) == 625 * speed_kmh * speed_kmh

\* distance_to_safe_point of calculate_dynamic_speed_limit, times
\* BrakeScale(train_ahead.braking_rate)
distance_to_safe_point(following_train, train_ahead) ==
  (train_ahead.position_km - SAFETY_MARGIN_METERS * UnitsPerMetre
     - following_train.position_km) * BrakeScale(train_ahead.braking_rate)
  - calculate_braking_distance(train_ahead.speed_kmh, train_ahead.braking_rate)

\* min(floor(sqrt(2 * d * braking_rate) * 3.6), cap) for the scaled distance d:
\* (s km/h)^2 <= 2*d*b*12.96  <=>  s^2 * 625 * b_ahead <= b_following * d
safe_speed_kmh(d, following_rate, ahead_rate, cap) ==
  CHOOSE s \in 0..cap :
    /\ s * s * 625 * ahead_rate <= following_rate * d
    /\ (s = cap \/ (s + 1) * (s + 1) * 625 * ahead_rate > following_rate * d)

\* variant: the safe point is taken without the safety margin
calculate_dynamic_speed_limit_NoMargin(following_train, train_ahead) ==
  LET d == distance_to_safe_point(following_train, train_ahead)
             + SAFETY_MARGIN_METERS * UnitsPerMetre * BrakeScale(train_ahead.braking_rate)
  IN  IF d <= 0
        THEN 0
        ELSE safe_speed_kmh(d, following_train.braking_rate,
                            train_ahead.braking_rate, following_train.max_speed_kmh)

calculate_dynamic_speed_limit(following_train, train_ahead) ==
  LET d == distance_to_safe_point(following_train, train_ahead)
  IN  IF d <= 0
        THEN 0
        ELSE safe_speed_kmh(d, following_train.braking_rate,
                            train_ahead.braking_rate, following_train.max_speed_kmh)

\* the ids in ascending (string) order
IdsAscending ==
  << "Express_101", "Express_102", "Goods_301", "Goods_302", "Goods_303",
     "Local_201", "Local_202" >>

IdRank(id) == CHOOSE k \in 1..Len(IdsAscending) : IdsAscending[k] = id

\* variant: ties are broken by identifier
Before_ById(tr, a, b) ==
  \/ tr[a].position_km < tr[b].position_km
  \/ tr[a].position_km = tr[b].position_km /\ IdRank(a) < IdRank(b)

\* sorted(trains.values(), key=position_km): stable, ties keep dict order
Before(tr, a, b) ==
  \/ tr[a].position_km < tr[b].position_km
  \/ tr[a].position_km = tr[b].position_km /\ Index(a) < Index(b)

SortedByPosition(tr) ==
  [ k \in 1..Cardinality(Ids) |->
      CHOOSE id \in Ids : Cardinality({ j \in Ids : Before(tr, j, id) }) = k - 1 ]

\* train_ahead of the i-th train of a sorted list
AheadAt(sorted, i) == IF i + 1 <= Len(sorted) THEN sorted[i + 1] ELSE None

PosIn(sorted, id) == CHOOSE k \in 1..Len(sorted) : sorted[k] = id

AheadOf(sorted, id) == AheadAt(sorted, PosIn(sorted, id))

\* variant: the ceiling is the cruising preference target_speed_kmh
SafeSpeedLimit_Target(tr, cur, ahead) ==
  LET desired_limit == tr[cur].target_speed_kmh
  IN  IF ahead # None
        THEN Min(desired_limit, calculate_dynamic_speed_limit(tr[cur], tr[ahead]))
        ELSE desired_limit

\* the ceiling computed for a dispatched train (lines 108-113)
SafeSpeedLimit(tr, cur, ahead) ==
  LET desired_limit == tr[cur].max_speed_kmh
  IN  IF ahead # None
        THEN Min(desired_limit, calculate_dynamic_speed_limit(tr[cur], tr[ahead]))
        ELSE desired_limit

\* variant: acceleration is not clamped to the ceiling
GovernOne_NoClamp(tr, cur, ahead) ==
  IF ~tr[cur].dispatched
    THEN [tr EXCEPT ![cur].speed_kmh = 0]
    ELSE LET safe_speed_limit ==
               IF ahead # None
                 THEN Min(tr[cur].max_speed_kmh,
                          calculate_dynamic_speed_limit(tr[cur], tr[ahead]))
                 ELSE tr[cur].max_speed_kmh
         IN  IF safe_speed_limit < tr[cur].speed_kmh
               THEN [tr EXCEPT ![cur].speed_kmh = safe_speed_limit]
               ELSE [tr EXCEPT ![cur].speed_kmh =
                       tr[cur].speed_kmh + ACCELERATION_KMH_PER_TICK]

\* variant: a train that is not dispatched is governed like any other
GovernOne_IgnoreHold(tr, cur, ahead) ==
  LET safe_speed_limit ==
        IF ahead # None
          THEN Min(tr[cur].max_speed_kmh,
                   calculate_dynamic_speed_limit(tr[cur], tr[ahead]))
          ELSE tr[cur].max_speed_kmh
  IN  IF safe_speed_limit < tr[cur].speed_kmh
        THEN [tr EXCEPT ![cur].speed_kmh = safe_speed_limit]
        ELSE [tr EXCEPT ![cur].speed_kmh =
                Min(safe_speed_limit, tr[cur].speed_kmh + ACCELERATION_KMH_PER_TICK)]

\* variant: braking is limited to one acceleration step per tick
GovernOne_RateLimitedBrake(tr, cur, ahead) ==
  IF ~tr[cur].dispatched
    THEN [tr EXCEPT ![cur].speed_kmh = 0]
    ELSE LET safe_speed_limit ==
               IF ahead # None
                 THEN Min(tr[cur].max_speed_kmh,
                          calculate_dynamic_speed_limit(tr[cur], tr[ahead]))
                 ELSE tr[cur].max_speed_kmh
         IN  IF safe_speed_limit < tr[cur].speed_kmh
               THEN [tr EXCEPT ![cur].speed_kmh =
                       IF tr[cur].speed_kmh - ACCELERATION_KMH_PER_TICK > safe_speed_limit
                         THEN tr[cur].speed_kmh - ACCELERATION_KMH_PER_TICK
                         ELSE safe_speed_limit]
               ELSE [tr EXCEPT ![cur].speed_kmh =
                       Min(safe_speed_limit, tr[cur].speed_kmh + ACCELERATION_KMH_PER_TICK)]

\* variant: acceleration is clamped to the train's maximum, not the ceiling
GovernOne_ClampToMax(tr, cur, ahead) ==
  IF ~tr[cur].dispatched
    THEN [tr EXCEPT ![cur].speed_kmh = 0]
    ELSE LET safe_speed_limit == SafeSpeedLimit(tr, cur, ahead)
         IN  IF safe_speed_limit < tr[cur].speed_kmh
               THEN [tr EXCEPT ![cur].speed_kmh = safe_speed_limit]
               ELSE [tr EXCEPT ![cur].speed_kmh =
                       Min(tr[cur].max_speed_kmh,
                           tr[cur].speed_kmh + ACCELERATION_KMH_PER_TICK)]

\* one iteration of the speed loop (lines 97-121)
GovernOne(tr, cur, ahead) ==
  IF ~tr[cur].dispatched
    THEN [tr EXCEPT ![cur].speed_kmh = 0]
    ELSE LET safe_speed_limit == SafeSpeedLimit(tr, cur, ahead)
         IN  IF safe_speed_limit < tr[cur].speed_kmh
               THEN [tr EXCEPT ![cur].speed_kmh = safe_speed_limit]
               ELSE [tr EXCEPT ![cur].speed_kmh =
                       Min(safe_speed_limit, tr[cur].speed_kmh + ACCELERATION_KMH_PER_TICK)]

\* variant: the speed loop runs from the front train to the rear one
RECURSIVE GovernLoop_FrontFirst(_, _, _)
GovernLoop_FrontFirst(tr, sorted, i) ==
  IF i > Len(sorted)
    THEN tr
    ELSE GovernOne(GovernLoop_FrontFirst(tr, sorted, i + 1), sorted[i], AheadAt(sorted, i))

RECURSIVE GovernLoop(_, _, _)
GovernLoop(tr, sorted, i) ==
  IF i > Len(sorted)
    THEN tr
    ELSE GovernLoop(GovernOne(tr, sorted[i], AheadAt(sorted, i)), sorted, i + 1)

\* variant: the displacement is subtracted
distance_moved_Back(train) == 0 - train.speed_kmh * 5 * TICK_RATE_SECONDS

\* the position loop (lines 123-128)
distance_moved(train) == train.speed_kmh * 5 * TICK_RATE_SECONDS

IntegrateOne(train) ==
  IF ~train.dispatched
    THEN train
    ELSE [train EXCEPT !.position_km = train.position_km + distance_moved(train)]

Integrate(tr) == [ id \in Ids |-> IntegrateOne(tr[id]) ]

\* the safety audit (lines 130-142): the pairs for which an alert is printed
Breach(following_train, train_ahead) ==
  (train_ahead.position_km - following_train.position_km)
      * BrakeScale(train_ahead.braking_rate)
    < calculate_braking_distance(train_ahead.speed_kmh, train_ahead.braking_rate)
      + SAFETY_MARGIN_METERS * UnitsPerMetre * BrakeScale(train_ahead.braking_rate)

Audit(tr) ==
  LET after == SortedByPosition(tr)
  IN  { << after[i], after[i + 1] >> : i \in { k \in 1..(Len(after) - 1) :
                                               Breach(tr[after[k]], tr[after[k + 1]]) } }

\* ------------------------------------------------------------ track graph
BLOCKED_COST == 9999

Edge(u, v, distance_km, base_time_mins) ==
  [ u |-> u, v |-> v, distance_km |-> distance_km, base_time_mins |-> base_time_mins ]

track_data ==
  [ nodes |-> { "Ballari Junction", "Signal_BLR_1", "Siding_Entry", "Toranagallu",
                "Signal_TOR_1", "Kudligi", "Hosapete" },
    edges |-> { Edge("Ballari Junction", "Signal_BLR_1", 10, 8),
                Edge("Signal_BLR_1", "Toranagallu", 15, 12),
                Edge("Toranagallu", "Signal_TOR_1", 5, 4),
                Edge("Signal_TOR_1", "Kudligi", 20, 15),
                Edge("Toranagallu", "Hosapete", 25, 20),
                Edge("Ballari Junction", "Siding_Entry", 12, 15),
                Edge("Siding_Entry", "Toranagallu", 12, 15) } ]

Range(q) == { q[k] : k \in 1..Len(q) }

\* an undirected graph: nodes, and edges with their data and time_cost
create_railway_graph ==
  [ nodes |-> track_data.nodes,
    edges |-> { [ u |-> e.u, v |-> e.v, base_time_mins |-> e.base_time_mins,
                  time_cost |-> e.base_time_mins ] : e \in track_data.edges } ]

Occupied(state, u, v) ==
  << u, v >> \in Range(state.occupied_tracks) \/ << v, u >> \in Range(state.occupied_tracks)

update_graph_with_traffic(graph, state) ==
  [ graph EXCEPT !.edges =
      { [ e EXCEPT !.time_cost = IF Occupied(state, e.u, e.v)
                                   THEN BLOCKED_COST
                                   ELSE e.base_time_mins ] : e \in graph.edges } ]

Neighbours(graph, n) ==
  { m \in graph.nodes : \E e \in graph.edges : { e.u, e.v } = { n, m } /\ n # m }

EdgeCost(graph, a, b) == (CHOOSE e \in graph.edges : { e.u, e.v } = { a, b }).time_cost

\* the simple paths of at most k edges that leave start
RECURSIVE SimplePaths(_, _, _)
SimplePaths(graph, start, k) ==
  IF k = 0
    THEN { << start >> }
    ELSE LET shorter == SimplePaths(graph, start, k - 1)
         IN  shorter \cup
             UNION { { Append(q, n) : n \in Neighbours(graph, q[Len(q)]) \ Range(q) }
                     : q \in shorter }

RECURSIVE PathCost(_, _)
PathCost(graph, q) ==
  IF Len(q) <= 1
    THEN 0
    ELSE EdgeCost(graph, q[1], q[2]) + PathCost(graph, Tail(q))

\* nx.astar_path without a heuristic: the exception it raises, or the paths
\* of least total time_cost, one of which it returns
astar_path(graph, start_node, end_node) ==
  IF start_node \notin graph.nodes \/ end_node \notin graph.nodes
    THEN [ raised |-> "NodeNotFound", paths |-> {} ]
    ELSE LET routes == { q \in SimplePaths(graph, start_node, Cardinality(graph.nodes) - 1) :
                           q[Len(q)] = end_node }
         IN  IF routes = {}
               THEN [ raised |-> "NetworkXNoPath", paths |-> {} ]
               ELSE [ raised |-> None,
                      paths |-> { q \in routes :
                                    \A r \in routes : PathCost(graph, q) <= PathCost(graph, r) } ]

\* find_optimal_path: NetworkXNoPath becomes None, written as the empty
\* sequence (a path found has at least one node); other exceptions pass through
find_optimal_path(graph, start_node, end_node) ==
  LET found == astar_path(graph, start_node, end_node)
  IN  IF found.raised = "NetworkXNoPath"
        THEN [ raised |-> None, paths |-> { << >> } ]
        ELSE found

\* ------------------------------------------------------------------ state
VARIABLES
  simulation_state,  \* the shared store: trains and occupied_tracks
  state_lock,        \* holder of state_lock, or "free"
  sim_pc,            \* position of simulation_loop
  sorted_trains,     \* local of simulation_loop: ids in the order of the first sort
  alerts,            \* pairs (following, ahead) reported by the last audit
  ticks,             \* completed ticks
  tick_start,        \* history: the trains as the running tick found them
  run_ticks,         \* history: ticks a train was governed with no train ahead
                     \* since its dispatch; -1 once it has had a train ahead
  disp_i,            \* index i of dispatcher_loop (1-based)
  disp_pc,           \* position of dispatcher_loop
  dispatch_log,      \* the ids of the "[DISPATCH]" lines printed, in order
  req_pc,            \* position of the request handler
  snapshot,          \* the deep copy held by the request handler, or None
  committed,         \* history: the store as the last writer left it
  snapshot_of,       \* history: value of committed when the copy was made
  queries,           \* requests served
  sequence,          \* argument dispatch_sequence of dispatcher_loop
  path_pc,           \* position of get_path
  path_args,         \* arguments (start_node, end_node) of get_path, or None
  current_state,     \* local of get_path: its deep copy of the store, or None
  response           \* what get_path hands back to the caller, or None

vars ==
  << simulation_state, state_lock, sim_pc, sorted_trains, alerts, ticks,
     tick_start, run_ticks, disp_i, disp_pc, dispatch_log, req_pc, snapshot,
     committed, snapshot_of, queries, sequence, path_pc, path_args,
     current_state, response >>

sim_vars == << sim_pc, sorted_trains, alerts, ticks, tick_start, run_ticks >>
path_vars == << path_pc, path_args, current_state, response >>
disp_vars == << disp_i, disp_pc, dispatch_log, sequence >>
req_vars == << req_pc, snapshot, snapshot_of, queries, path_vars >>

trains == simulation_state.trains

Dispatched(tr) == { id \in Ids : tr[id].dispatched }

Init ==
  /\ simulation_state = InitialState
  /\ state_lock = "free"
  /\ sim_pc = "sleep"
  /\ sorted_trains = << >>
  /\ alerts = {}
  /\ ticks = 0
  /\ tick_start = InitialTrains
  /\ run_ticks = [ id \in Ids |-> 0 ]
  /\ disp_i = 1
  /\ disp_pc = "acquire"
  /\ dispatch_log = << >>
  /\ req_pc = "idle"
  /\ snapshot = None
  /\ committed = InitialState
  /\ snapshot_of = None
  /\ queries = 0
  /\ sequence = dispatch_sequence
  /\ path_pc = "idle"
  /\ path_args = None
  /\ current_state = None
  /\ response = None

\* -------------------------------------------------------- simulation_loop
\* with state_lock:  (line 93)
SimAcquire(limit) ==
  /\ sim_pc = "sleep"
  /\ ticks < limit
  /\ state_lock = "free"
  /\ state_lock' = "simulation"
  /\ sim_pc' = "govern"
  /\ tick_start' = trains
  /\ UNCHANGED << simulation_state, sorted_trains, alerts, ticks, run_ticks,
                  disp_vars, req_vars, committed >>

NextRunTicks(tr, sorted, run) ==
  [ id \in Ids |->
      IF ~tr[id].dispatched
        THEN run[id]
        ELSE IF run[id] >= 0 /\ AheadOf(sorted, id) = None
               THEN run[id] + 1
               ELSE -1 ]

\* the first sort and the speed loop  (lines 94-121)
SimGovern ==
  /\ sim_pc = "govern"
  /\ sorted_trains' = SortedByPosition(trains)
  /\ simulation_state' =
       [simulation_state EXCEPT !.trains = GovernLoop(trains, sorted_trains', 1)]
  /\ run_ticks' = NextRunTicks(trains, sorted_trains', run_ticks)
  /\ sim_pc' = "integrate"
  /\ UNCHANGED << state_lock, alerts, ticks, tick_start, disp_vars, req_vars,
                  committed >>

\* the position loop  (lines 123-128)
SimIntegrate ==
  /\ sim_pc = "integrate"
  /\ simulation_state' = [simulation_state EXCEPT !.trains = Integrate(trains)]
  /\ sim_pc' = "audit"
  /\ UNCHANGED << state_lock, sorted_trains, alerts, ticks, tick_start,
                  run_ticks, disp_vars, req_vars, committed >>

\* the second sort, the safety audit and the display  (lines 130-143)
SimAudit ==
  /\ sim_pc = "audit"
  /\ alerts' = Audit(trains)
  /\ sim_pc' = "release"
  /\ UNCHANGED << simulation_state, state_lock, sorted_trains, ticks,
                  tick_start, run_ticks, disp_vars, req_vars, committed >>

\* leaving the with block, then time.sleep  (lines 143-144)
SimRelease ==
  /\ sim_pc = "release"
  /\ state_lock' = "free"
  /\ committed' = simulation_state
  /\ ticks' = ticks + 1
  /\ sim_pc' = "sleep"
  /\ UNCHANGED << simulation_state, sorted_trains, alerts, tick_start,
                  run_ticks, disp_vars, req_vars >>

\* -------------------------------------------------------- dispatcher_loop
\* variant: the dispatcher enters its section without waiting for the lock
DispAcquire_NoLock ==
  /\ disp_pc = "acquire"
  /\ disp_i <= Len(sequence)
  /\ state_lock' = "dispatcher"
  /\ disp_pc' = "locked"
  /\ UNCHANGED << simulation_state, sim_vars, disp_i, dispatch_log, sequence,
                  req_vars, committed >>

\* with state_lock:  (line 198)
DispAcquire ==
  /\ disp_pc = "acquire"
  /\ disp_i <= Len(sequence)
  /\ state_lock = "free"
  /\ state_lock' = "dispatcher"
  /\ disp_pc' = "locked"
  /\ UNCHANGED << simulation_state, sim_vars, disp_i, dispatch_log, sequence,
                  req_vars, committed >>

\* variant: the flag of a known train is inverted instead of set
Dispatch_Toggle(state, tid) ==
  IF tid \in DOMAIN state.trains
    THEN [state EXCEPT !.trains[tid].dispatched = ~state.trains[tid].dispatched]
    ELSE state

\* variant: a release also sets the train to its target speed
Dispatch_Launch(state, tid) ==
  IF tid \in DOMAIN state.trains /\ ~state.trains[tid].dispatched
    THEN [state EXCEPT !.trains[tid].dispatched = TRUE,
                       !.trains[tid].speed_kmh = state.trains[tid].target_speed_kmh]
    ELSE state

\* the guarded flag flip  (lines 199-201)
Dispatch(state, tid) ==
  IF tid \in DOMAIN state.trains /\ ~state.trains[tid].dispatched
    THEN [state EXCEPT !.trains[tid].dispatched = TRUE]
    ELSE state

DispatchPrinted(state, tid) ==
  tid \in DOMAIN state.trains /\ ~state.trains[tid].dispatched

\* variant: the loop sleeps after every release, the last one included
DispFlip_AlwaysSleep ==
  /\ disp_pc = "locked"
  /\ LET tid == sequence[disp_i]
     IN  /\ simulation_state' = Dispatch(simulation_state, tid)
         /\ dispatch_log' = IF DispatchPrinted(simulation_state, tid)
                              THEN Append(dispatch_log, tid)
                              ELSE dispatch_log
  /\ state_lock' = "free"
  /\ committed' = simulation_state'
  /\ disp_pc' = "sleep"
  /\ UNCHANGED << sim_vars, disp_i, sequence, req_vars >>

\* variant: the loop ends after its first release
DispFlip_OneShot ==
  /\ disp_pc = "locked"
  /\ LET tid == sequence[disp_i]
     IN  /\ simulation_state' = Dispatch(simulation_state, tid)
         /\ dispatch_log' = IF DispatchPrinted(simulation_state, tid)
                              THEN Append(dispatch_log, tid)
                              ELSE dispatch_log
  /\ state_lock' = "free"
  /\ committed' = simulation_state'
  /\ disp_pc' = "done"
  /\ UNCHANGED << sim_vars, disp_i, sequence, req_vars >>

\* the body of the with block and its exit  (lines 199-203)
DispFlip ==
  /\ disp_pc = "locked"
  /\ LET tid == sequence[disp_i]
     IN  /\ simulation_state' = Dispatch(simulation_state, tid)
         /\ dispatch_log' = IF DispatchPrinted(simulation_state, tid)
                              THEN Append(dispatch_log, tid)
                              ELSE dispatch_log
  /\ state_lock' = "free"
  /\ committed' = simulation_state'
  /\ disp_pc' = IF disp_i < Len(sequence) THEN "sleep" ELSE "done"
  /\ UNCHANGED << sim_vars, disp_i, sequence, req_vars >>

\* variant: the loop index advances by two
DispWake_Skip ==
  /\ disp_pc = "sleep"
  /\ disp_i' = Min(disp_i + 2, Len(sequence))
  /\ disp_pc' = "acquire"
  /\ UNCHANGED << simulation_state, state_lock, sim_vars, dispatch_log,
                  sequence, req_vars, committed >>

\* time.sleep(delay_between_dispatches) and the next iteration  (line 204)
DispWake ==
  /\ disp_pc = "sleep"
  /\ disp_i' = disp_i + 1
  /\ disp_pc' = "acquire"
  /\ UNCHANGED << simulation_state, state_lock, sim_vars, dispatch_log,
                  sequence, req_vars, committed >>

\* ------------------------------------- get_current_state / get_path
\* variant: the handler copies without waiting for the lock
ReadAcquire_NoLock ==
  /\ req_pc = "idle"
  /\ queries < MaxQueries
  /\ state_lock' = "reader"
  /\ req_pc' = "locked"
  /\ UNCHANGED << simulation_state, sim_vars, disp_vars, snapshot, snapshot_of,
                  queries, path_vars, committed >>

\* with state_lock:  (lines 212, 217)
ReadAcquire ==
  /\ req_pc = "idle"
  /\ queries < MaxQueries
  /\ state_lock = "free"
  /\ state_lock' = "reader"
  /\ req_pc' = "locked"
  /\ UNCHANGED << simulation_state, sim_vars, disp_vars, snapshot, snapshot_of,
                  queries, path_vars, committed >>

deepcopy(state) == state

\* copy.deepcopy(simulation_state) and the exit of the with block
ReadCopy ==
  /\ req_pc = "locked"
  /\ snapshot' = deepcopy(simulation_state)
  /\ snapshot_of' = committed
  /\ state_lock' = "free"
  /\ req_pc' = "copied"
  /\ UNCHANGED << simulation_state, sim_vars, disp_vars, queries, path_vars,
                  committed >>

\* the response is built from the copy and returned
ReadReturn ==
  /\ req_pc = "copied"
  /\ snapshot' = None
  /\ snapshot_of' = None
  /\ queries' = queries + 1
  /\ req_pc' = "idle"
  /\ UNCHANGED << simulation_state, state_lock, sim_vars, disp_vars, path_vars,
                  committed >>

\* ----------------------------------------------------------------- get_path
\* the request arrives and the handler takes the lock  (lines 215-217)
PathAcquire(start_node, end_node) ==
  /\ path_pc = "idle"
  /\ queries < MaxQueries
  /\ state_lock = "free"
  /\ state_lock' = "path"
  /\ path_args' = << start_node, end_node >>
  /\ path_pc' = "locked"
  /\ UNCHANGED << simulation_state, sim_vars, disp_vars, req_pc, snapshot,
                  snapshot_of, queries, current_state, response, committed >>

\* current_state = copy.deepcopy(simulation_state), end of the with block
PathCopy ==
  /\ path_pc = "locked"
  /\ current_state' = deepcopy(simulation_state)
  /\ state_lock' = "free"
  /\ path_pc' = "copied"
  /\ UNCHANGED << simulation_state, sim_vars, disp_vars, req_pc, snapshot,
                  snapshot_of, queries, path_args, response, committed >>

\* the result of lines 224-230 for a path
PathResult(start_node, end_node, path, state) ==
  [ start_node |-> start_node, end_node |-> end_node, optimal_path |-> path,
    blocked_tracks_at_moment |-> state.occupied_tracks ]

\* lines 220-230; an exception that get_path does not catch ends the request
\* with the server's error response
PathRespond ==
  /\ path_pc = "copied"
  /\ LET railway_map == update_graph_with_traffic(create_railway_graph, current_state)
         found == find_optimal_path(railway_map, path_args[1], path_args[2])
     IN  IF found.raised # None
           THEN response' = [ status |-> 500, exception |-> found.raised ]
           ELSE \E path \in found.paths :
                  response' = [ status |-> 200, exception |-> None,
                                body |-> PathResult(path_args[1], path_args[2], path,
                                                    current_state) ]
  /\ path_pc' = "responded"
  /\ UNCHANGED << simulation_state, state_lock, sim_vars, disp_vars, req_pc,
                  snapshot, snapshot_of, queries, path_args, current_state,
                  committed >>

\* the request is over
PathDone ==
  /\ path_pc = "responded"
  /\ path_pc' = "idle"
  /\ path_args' = None
  /\ current_state' = None
  /\ response' = None
  /\ queries' = queries + 1
  /\ UNCHANGED << simulation_state, state_lock, sim_vars, disp_vars, req_pc,
                  snapshot, snapshot_of, committed >>

\* --------------------------------------------------------- specifications
Next ==
  \/ SimAcquire(MaxTicks)
  \/ SimGovern
  \/ SimIntegrate
  \/ SimAudit
  \/ SimRelease
  \/ DispAcquire
  \/ DispFlip
  \/ DispWake
  \/ ReadAcquire
  \/ ReadCopy
  \/ ReadReturn

Spec == Init /\ [][Next]_vars

\* the tick engine and the dispatcher alone, for longer runs
NextRun ==
  \/ SimAcquire(MaxRunTicks)
  \/ SimGovern
  \/ SimIntegrate
  \/ SimAudit
  \/ SimRelease
  \/ DispAcquire
  \/ DispFlip
  \/ DispWake

SpecRun == Init /\ [][NextRun]_vars

\* A store some way into a run: the dispatcher has released the first k ids
\* of its sequence and sleeps; the released trains stand or move on the track.
ScenarioReleased == { 2, 3 }

ScenarioPositionsMetres == { 0, 4900, 5000, 5400 }

ScenarioSpeeds == { 0, 60, 75, 120 }

Prefix(seq, k) == [ j \in 1..k |-> seq[j] ]

InitScenario ==
  \E k \in ScenarioReleased :
    \E pos \in [ 1..k -> ScenarioPositionsMetres ], spd \in [ 1..k -> ScenarioSpeeds ] :
      LET rank(id) == CHOOSE j \in 1..k : dispatch_sequence[j] = id
          released == { dispatch_sequence[j] : j \in 1..k }
          tr == [ id \in Ids |->
                    IF id \in released
                      THEN [InitialTrains[id] EXCEPT
                              !.position_km = pos[rank(id)] * UnitsPerMetre,
                              !.speed_kmh = spd[rank(id)],
                              !.dispatched = TRUE]
                      ELSE InitialTrains[id] ]
      IN  /\ \A id \in released :
               /\ tr[id].speed_kmh <= tr[id].max_speed_kmh
               /\ tr[id].speed_kmh > 0 => tr[id].position_km > 0
          /\ simulation_state = [ trains |-> tr, occupied_tracks |-> << >> ]
          /\ committed = [ trains |-> tr, occupied_tracks |-> << >> ]
          /\ tick_start = tr
          /\ run_ticks = [ id \in Ids |-> IF tr[id].speed_kmh = 0 THEN 0 ELSE -1 ]
          /\ disp_i = k
          /\ disp_pc = "sleep"
          /\ dispatch_log = Prefix(dispatch_sequence, k)
          /\ state_lock = "free"
          /\ sim_pc = "sleep"
          /\ sorted_trains = << >>
          /\ alerts = {}
          /\ ticks = 0
          /\ req_pc = "idle"
          /\ snapshot = None
          /\ snapshot_of = None
          /\ queries = 0
          /\ sequence = dispatch_sequence
          /\ path_pc = "idle"
          /\ path_args = None
          /\ current_state = None
          /\ response = None

NextScenario ==
  \/ SimAcquire(MaxScenarioTicks)
  \/ SimGovern
  \/ SimIntegrate
  \/ SimAudit
  \/ SimRelease
  \/ DispAcquire
  \/ DispFlip
  \/ DispWake

SpecScenario == InitScenario /\ [][NextScenario]_vars

\* dispatcher_loop called with other arguments: sequences that name a train
\* twice or name a train the store does not hold
MaxSeqLen == 3

DispatchAlphabet == { "Express_101", "Local_202", "Ghost_999" }

RECURSIVE SeqsOfLen(_)
SeqsOfLen(n) ==
  IF n = 0
    THEN { << >> }
    ELSE { Append(q, x) : q \in SeqsOfLen(n - 1), x \in DispatchAlphabet }

DispatchInputs ==
  { dispatch_sequence } \cup UNION { SeqsOfLen(n) : n \in 1..MaxSeqLen }

InitDispatch ==
  /\ sequence \in DispatchInputs
  /\ simulation_state = InitialState
  /\ state_lock = "free"
  /\ sim_pc = "sleep"
  /\ sorted_trains = << >>
  /\ alerts = {}
  /\ ticks = 0
  /\ tick_start = InitialTrains
  /\ run_ticks = [ id \in Ids |-> 0 ]
  /\ disp_i = 1
  /\ disp_pc = "acquire"
  /\ dispatch_log = << >>
  /\ req_pc = "idle"
  /\ snapshot = None
  /\ committed = InitialState
  /\ snapshot_of = None
  /\ queries = 0
  /\ path_pc = "idle"
  /\ path_args = None
  /\ current_state = None
  /\ response = None

NextDispatch ==
  \/ SimAcquire(MaxTicks)
  \/ SimGovern
  \/ SimIntegrate
  \/ SimAudit
  \/ SimRelease
  \/ DispAcquire
  \/ DispFlip
  \/ DispWake

\* a step of the tick engine inside its with block
TickAdvance ==
  /\ sim_pc \in { "govern", "integrate", "audit", "release" }
  /\ sim_pc' = CASE sim_pc = "govern" -> "integrate"
                 [] sim_pc = "integrate" -> "audit"
                 [] sim_pc = "audit" -> "release"
                 [] sim_pc = "release" -> "sleep"

\* Scheduling: each loop sleeps outside the lock in every iteration, so a
\* loop that waits for the lock finds it free again and again and gets it;
\* a loop that holds the lock runs on to the end of its section.
Fairness ==
  /\ SF_vars(SimAcquire(MaxTicks))
  /\ WF_sim_pc(TickAdvance)
  /\ SF_vars(DispAcquire)
  /\ WF_vars(DispFlip)
  /\ WF_vars(DispWake)

SpecDispatch == InitDispatch /\ [][NextDispatch]_vars /\ Fairness

\* path queries against stores whose occupied_tracks names up to MaxBlocked
\* edges, in either direction; queries may name a node the graph lacks
MaxBlocked == 1

QueryNodes == track_data.nodes \cup { "Nowhere" }

DirectedEdges ==
  { << e.u, e.v >> : e \in track_data.edges } \cup { << e.v, e.u >> : e \in track_data.edges }

RECURSIVE BlockedLists(_)
BlockedLists(n) ==
  IF n = 0
    THEN { << >> }
    ELSE LET shorter == BlockedLists(n - 1)
         IN  shorter \cup
             { Append(q, x) : q \in { r \in shorter : Len(r) = n - 1 }, x \in DirectedEdges }

InitPath ==
  /\ \E blocked \in { q \in BlockedLists(MaxBlocked) :
                        \A j, k \in 1..Len(q) : j # k => q[j] # q[k] } :
       /\ simulation_state = [ InitialState EXCEPT !.occupied_tracks = blocked ]
       /\ committed = [ InitialState EXCEPT !.occupied_tracks = blocked ]
  /\ state_lock = "free"
  /\ sim_pc = "sleep"
  /\ sorted_trains = << >>
  /\ alerts = {}
  /\ ticks = 0
  /\ tick_start = InitialTrains
  /\ run_ticks = [ id \in Ids |-> 0 ]
  /\ disp_i = 1
  /\ disp_pc = "acquire"
  /\ dispatch_log = << >>
  /\ sequence = dispatch_sequence
  /\ req_pc = "idle"
  /\ snapshot = None
  /\ snapshot_of = None
  /\ queries = 0
  /\ path_pc = "idle"
  /\ path_args = None
  /\ current_state = None
  /\ response = None

NextPath ==
  \/ \E start_node, end_node \in QueryNodes : PathAcquire(start_node, end_node)
  \/ PathCopy
  \/ PathRespond
  \/ PathDone

SpecPath == InitPath /\ [][NextPath]_vars

\* the shipped program run long enough for every train to leave the origin.
\* The tick loop sleeps TICK_RATE_SECONDS (1 s) and the dispatcher
\* delay_between_dispatches (2 s): while releases are outstanding at most
\* MaxTicksPerDispatch ticks start between one release and the next, and the
\* dispatcher may be as much faster than that as it likes.
MaxLiveTicks == 200
MaxTicksPerDispatch == 2

SimAcquirePaced(limit) ==
  /\ disp_pc = "done" \/ ticks < MaxTicksPerDispatch * (Len(dispatch_log) + 1)
  /\ SimAcquire(limit)

NextLive ==
  \/ SimAcquirePaced(MaxLiveTicks)
  \/ SimGovern
  \/ SimIntegrate
  \/ SimAudit
  \/ SimRelease
  \/ DispAcquire
  \/ DispFlip
  \/ DispWake

\* both loops are scheduled fairly: a loop waiting for the lock gets it, and
\* a loop that holds the lock or sleeps goes on
FairnessLive ==
  /\ SF_vars(SimAcquirePaced(MaxLiveTicks))
  /\ WF_sim_pc(TickAdvance)
  /\ SF_vars(DispAcquire)
  /\ WF_vars(DispFlip)
  /\ WF_vars(DispWake)

SpecLive == Init /\ [][NextLive]_vars /\ FairnessLive

\* the whole server: both loops, state queries and path queries
FrameQueries == { << "Ballari Junction", "Kudligi" >>, << "Hosapete", "Nowhere" >> }

MaxFrameTicks == 1

NextFrame ==
  \/ SimAcquire(MaxFrameTicks)
  \/ SimGovern
  \/ SimIntegrate
  \/ SimAudit
  \/ SimRelease
  \/ DispAcquire
  \/ DispFlip
  \/ DispWake
  \/ ReadAcquire
  \/ ReadCopy
  \/ ReadReturn
  \/ \E q \in FrameQueries : PathAcquire(q[1], q[2])
  \/ PathCopy
  \/ PathRespond
  \/ PathDone

SpecFrame == Init /\ [][NextFrame]_vars

\* ----------------------------------------------------------------- claims
InTick == sim_pc \in { "govern", "integrate", "audit", "release" }
Governed == sim_pc \in { "integrate", "audit", "release" }
Integrated == sim_pc \in { "audit", "release" }

\* the dispatched trains in the order of the sort
DispatchedInOrder(tr) ==
  SelectSeq(SortedByPosition(tr), LAMBDA id : tr[id].dispatched)

\* C1: when a tick has completed, for any two dispatched trains adjacent in
\* position order the train behind is not past the rear safety boundary of
\* the train ahead: behind.position <= ahead.position - braking distance of
\* the train ahead - 200 m.
C1_SafeSeparation ==
  sim_pc = "release" =>
    LET d == DispatchedInOrder(trains)
    IN  \A k \in 1..(Len(d) - 1) :
          distance_to_safe_point(trains[d[k]], trains[d[k + 1]]) >= 0

\* C2: in every reachable state every train has 0 <= speed_kmh <= max_speed_kmh.
C2_SpeedRange ==
  \A id \in Ids :
    /\ 0 <= trains[id].speed_kmh
    /\ trains[id].speed_kmh <= trains[id].max_speed_kmh

\* a tick has accelerated a train into its maximum and another was held
\* below its maximum by the governor
C2_Witness ==
  /\ sim_pc = "release"
  /\ \E id \in Ids :
       /\ tick_start[id].speed_kmh < trains[id].max_speed_kmh
       /\ tick_start[id].speed_kmh + ACCELERATION_KMH_PER_TICK > trains[id].max_speed_kmh
       /\ trains[id].speed_kmh = trains[id].max_speed_kmh
  /\ \E id \in Ids :
       /\ trains[id].speed_kmh > 0
       /\ trains[id].speed_kmh < tick_start[id].speed_kmh

\* C3: the dispatcher flips the dispatched flag of every configured id exactly
\* once and in the configured order, whatever the ticks interleaved with it:
\* the flips made so far are the first ids of the sequence, in order, the
\* dispatched trains are exactly those, and at the end all have been flipped.
C3_DispatchInOrder ==
  /\ Len(dispatch_log) <= Len(dispatch_sequence)
  /\ \A k \in 1..Len(dispatch_log) : dispatch_log[k] = dispatch_sequence[k]
  /\ Dispatched(trains) = { dispatch_log[k] : k \in 1..Len(dispatch_log) }
  /\ disp_pc \in { "acquire", "locked" } => Len(dispatch_log) = disp_i - 1
  /\ disp_pc \in { "sleep", "done" } => Len(dispatch_log) = disp_i
  /\ disp_pc = "done" => dispatch_log = dispatch_sequence

\* the dispatcher has finished while a tick is in progress
C3_Witness ==
  /\ disp_pc = "done"
  /\ sim_pc = "integrate"
  /\ ticks >= 1
  /\ Dispatched(trains) = Ids

\* C4: in any tick the train used as train_ahead when a dispatched train is
\* governed is itself dispatched (or there is none): trains held at the
\* origin take no part in the ahead/behind ordering of dispatched trains.
C4_AheadIsDispatched ==
  Governed =>
    \A id \in Dispatched(tick_start) :
      LET ahead == AheadOf(sorted_trains, id)
      IN  ahead = None \/ tick_start[ahead].dispatched

\* C5: a tick leaves the position of a train that is not dispatched unchanged
\* and its speed at 0.
C5_HeldTrainsStay ==
  \A id \in Ids :
    ~tick_start[id].dispatched =>
      /\ Governed => trains[id].speed_kmh = 0
      /\ Integrated => trains[id].position_km = tick_start[id].position_km

\* a tick has moved a dispatched train while another train was held
C5_Witness ==
  /\ sim_pc = "release"
  /\ \E id \in Ids : ~tick_start[id].dispatched
  /\ \E id \in Ids : trains[id].position_km > tick_start[id].position_km

\* C6: no step ever lowers the position of a train, so once dispatched its
\* position is non-decreasing over the ticks.
C6_PositionMonotone ==
  [][ \A id \in Ids :
        simulation_state'.trains[id].position_km >= trains[id].position_km ]_vars

\* a dispatched train has been moved by a second tick
C6_Witness ==
  /\ ticks >= 1
  /\ sim_pc = "audit"
  /\ \E id \in Ids :
       /\ trains[id].dispatched
       /\ tick_start[id].position_km > 0
       /\ trains[id].position_km > tick_start[id].position_km

\* C7: a snapshot handed to a query equals the whole store as the last writer
\* left it at the instant of the copy; it never holds part of a tick.
C7_SnapshotAtomic ==
  req_pc = "copied" => snapshot = snapshot_of

\* a query holds its snapshot while a tick has changed speeds but not yet
\* positions
C7_Witness ==
  /\ req_pc = "copied"
  /\ sim_pc = "integrate"
  /\ snapshot.trains # trains
  /\ Dispatched(trains) # {}

\* C8: the tick engine and the dispatcher are never in their sections at the
\* same time, and throughout a tick the set of dispatched trains is the one
\* the tick started with.
C8_WritersExclusive ==
  /\ ~(InTick /\ disp_pc = "locked")
  /\ InTick => Dispatched(trains) = Dispatched(tick_start)

\* the dispatcher is between two releases, waiting for the lock, while a tick
\* is in progress
C8_Witness ==
  /\ sim_pc = "integrate"
  /\ disp_pc = "acquire"
  /\ disp_i > 1
  /\ disp_i <= Len(dispatch_sequence)
  /\ state_lock = "simulation"

\* C9: when a dispatched train has a train ahead and its headroom is <= 0 at
\* the start of a tick, the governor returns 0, the tick sets the train's
\* speed to 0 whatever it was, and the train's position is unchanged.
C9_StopAtBoundary ==
  Governed =>
    \A id \in Dispatched(tick_start) :
      LET ahead == AheadOf(sorted_trains, id)
      IN  (/\ ahead # None
           /\ distance_to_safe_point(tick_start[id], tick_start[ahead]) <= 0)
          => /\ calculate_dynamic_speed_limit(tick_start[id], tick_start[ahead]) = 0
             /\ trains[id].speed_kmh = 0
             /\ Integrated => trains[id].position_km = tick_start[id].position_km

\* a train running at 60 km/h or more, 100 m behind a standing train, has
\* been stopped by the tick
C9_Witness ==
  /\ sim_pc = "release"
  /\ \E id \in Dispatched(tick_start) :
       LET ahead == AheadOf(sorted_trains, id)
       IN  /\ ahead # None
           /\ tick_start[ahead].speed_kmh = 0
           /\ tick_start[ahead].position_km - tick_start[id].position_km
                = 100 * UnitsPerMetre
           /\ tick_start[id].speed_kmh >= 60
           /\ trains[id].speed_kmh = 0
           /\ trains[id].position_km = tick_start[id].position_km

\* C10: a dispatched train that started at speed 0 and had no train ahead in
\* each of its N ticks has speed min(max_speed_kmh, N * ACCELERATION_KMH_PER_TICK).
C10_FreeRunSpeed ==
  \A id \in Ids :
    (trains[id].dispatched /\ run_ticks[id] >= 0) =>
      trains[id].speed_kmh =
        Min(trains[id].max_speed_kmh, run_ticks[id] * ACCELERATION_KMH_PER_TICK)

\* a train has run free for more ticks than it needs to reach its maximum
C10_Witness ==
  \E id \in Ids :
    /\ trains[id].dispatched
    /\ run_ticks[id] * ACCELERATION_KMH_PER_TICK > trains[id].max_speed_kmh
    /\ trains[id].speed_kmh = trains[id].max_speed_kmh

\* a dispatch step that finds its id unknown or already dispatched
NoOpDispatch ==
  /\ disp_pc = "locked"
  /\ disp_pc' # "locked"
  /\ \/ sequence[disp_i] \notin Ids
     \/ trains[sequence[disp_i]].dispatched

\* C11: dispatching an id that is unknown to the store, or whose train is
\* already dispatched, leaves the whole store unchanged, prints nothing, and
\* the dispatcher goes on to the next id of its sequence (or ends after the
\* last).
C11_NoOpDispatch ==
  [][ NoOpDispatch =>
        /\ simulation_state' = simulation_state
        /\ dispatch_log' = dispatch_log
        /\ state_lock' = "free"
        /\ disp_i' = disp_i
        /\ disp_pc' = IF disp_i < Len(sequence) THEN "sleep" ELSE "done" ]_vars

\* the dispatcher has run through a sequence that names an unknown id and
\* names a train twice, with ticks in between
C11_Witness ==
  /\ disp_pc = "done"
  /\ ticks >= 1
  /\ \E k \in 1..Len(sequence) : sequence[k] \notin Ids
  /\ \E j, k \in 1..Len(sequence) : j < k /\ sequence[j] = sequence[k] /\ sequence[j] \in Ids
  /\ Dispatched(trains) # {}

\* C12: under fair scheduling every configured id that the store holds is
\* eventually dispatched and the dispatcher loop then has ended; it never
\* sleeps after its last release.
C12_EventualRelease ==
  /\ [](disp_pc = "sleep" => disp_i < Len(sequence))
  /\ <>[](/\ disp_pc = "done"
          /\ \A k \in 1..Len(sequence) :
               sequence[k] \in Ids => trains[sequence[k]].dispatched)

\* the loop has ended with every train of the shipped sequence dispatched
\* while ticks were running
C12_Witness ==
  /\ disp_pc = "done"
  /\ sequence = dispatch_sequence
  /\ Dispatched(trains) = Ids
  /\ ticks >= 2
  /\ sim_pc = "govern"

\* C13: at the start of each tick the trains are sorted by ascending position
\* and trains at the same position are ordered by identifier, not by the
\* order in which they are stored.
C13_TieById ==
  Governed =>
    \A k \in 1..(Len(sorted_trains) - 1) :
      LET a == sorted_trains[k]
          b == sorted_trains[k + 1]
      IN  \/ tick_start[a].position_km < tick_start[b].position_km
          \/ /\ tick_start[a].position_km = tick_start[b].position_km
             /\ IdRank(a) < IdRank(b)

\* C13 (amended): at the start of each tick the trains are sorted by
\* ascending position and trains at the same position keep the order in
\* which the store holds them.
C13_TieByStorage ==
  Governed =>
    /\ Len(sorted_trains) = Cardinality(Ids)
    /\ \A k \in 1..(Len(sorted_trains) - 1) :
         LET a == sorted_trains[k]
             b == sorted_trains[k + 1]
         IN  \/ tick_start[a].position_km < tick_start[b].position_km
             \/ /\ tick_start[a].position_km = tick_start[b].position_km
                /\ Index(a) < Index(b)

\* a tick has sorted a store in which one train has left the origin and the
\* others share it, the first two out of identifier order
C13_Witness ==
  /\ Governed
  /\ tick_start[sorted_trains[7]].position_km > 0
  /\ tick_start[sorted_trains[1]].position_km = tick_start[sorted_trains[2]].position_km
  /\ IdRank(sorted_trains[1]) > IdRank(sorted_trains[3])

\* the query in progress has been answered
Responded == path_pc = "responded"

JoinedByEdge(a, b) == a # b /\ \E e \in track_data.edges : { e.u, e.v } = { a, b }

UsesEdge(q, a, b) == \E k \in 1..(Len(q) - 1) : { q[k], q[k + 1] } = { a, b }

\* C14: a path query whose start or end node is not a node of the topology
\* ends with an explicit "not found" result handed to the caller, which is
\* not the null-path result, and never with an exception nobody handles.
C14_UnknownNodeNotFound ==
  (Responded /\ (path_args[1] \notin track_data.nodes \/ path_args[2] \notin track_data.nodes))
    => /\ response.exception = None
       /\ ~(response.status = 200 /\ response.body.optimal_path = << >>)

DirectlyAhead(tr, id) ==
  LET further == { j \in Ids : Before(tr, id, j) }
  IN  IF further = {}
        THEN None
        ELSE CHOOSE j \in further : \A k \in further : k = j \/ Before(tr, j, k)

SpeedFromTickStart(id) ==
  GovernOne(tick_start, id, DirectlyAhead(tick_start, id))[id].speed_kmh

\* C16: within a tick the phases are ordered: every speed is governed from
\* the positions of both trains and the speed of the train ahead as they were
\* at the start of the tick, and no position changes before all speeds are
\* set; then each dispatched train advances by exactly its new speed times
\* the tick length (others stay); and the audit reports the breaches of the
\* positions and speeds after the update.
C16_PhaseOrder ==
  /\ sim_pc = "govern" => trains = tick_start
  /\ Governed => \A id \in Ids : trains[id].speed_kmh = SpeedFromTickStart(id)
  /\ sim_pc = "integrate" =>
       \A id \in Ids : trains[id].position_km = tick_start[id].position_km
  /\ Integrated =>
       \A id \in Ids :
         trains[id].position_km =
           tick_start[id].position_km
             + (IF trains[id].dispatched
                  THEN trains[id].speed_kmh * 5 * TICK_RATE_SECONDS
                  ELSE 0)
  /\ sim_pc = "release" => alerts = Audit(trains)

\* a tick has run in which the train ahead changed speed, the train behind
\* it was governed to a speed that the new speed of the train ahead would
\* not have given, it moved, and the audit raised an alert
C16_Witness ==
  /\ sim_pc = "release"
  /\ alerts # {}
  /\ \E id \in Ids :
       LET ahead == DirectlyAhead(tick_start, id)
       IN  /\ ahead # None
           /\ trains[id].dispatched
           /\ trains[ahead].speed_kmh # tick_start[ahead].speed_kmh
           /\ trains[id].speed_kmh > 0
           /\ trains[id].position_km > tick_start[id].position_km
           /\ GovernOne([tick_start EXCEPT ![ahead].speed_kmh = trains[ahead].speed_kmh],
                        id, ahead)[id].speed_kmh # trains[id].speed_kmh

\* the ceiling of a train in the current tick, from the trains as the tick
\* found them
Ceiling(id) ==
  LET ahead == DirectlyAhead(tick_start, id)
  IN  IF ahead = None
        THEN tick_start[id].max_speed_kmh
        ELSE Min(tick_start[id].max_speed_kmh,
                 calculate_dynamic_speed_limit(tick_start[id], tick_start[ahead]))

\* C17: for every dispatched train in every tick, with ceiling = max_speed
\* if no train is ahead and min(max_speed, governor) otherwise: the new speed
\* is the ceiling when the ceiling is below the current speed (the whole
\* reduction in one tick), and min(ceiling, current speed + acceleration
\* step) otherwise; the new speed never exceeds the ceiling.
C17_SpeedUpdate ==
  Governed =>
    \A id \in Ids :
      tick_start[id].dispatched =>
        /\ Ceiling(id) < tick_start[id].speed_kmh =>
             trains[id].speed_kmh = Ceiling(id)
        /\ Ceiling(id) >= tick_start[id].speed_kmh =>
             trains[id].speed_kmh =
               IF tick_start[id].speed_kmh + ACCELERATION_KMH_PER_TICK < Ceiling(id)
                 THEN tick_start[id].speed_kmh + ACCELERATION_KMH_PER_TICK
                 ELSE Ceiling(id)
        /\ trains[id].speed_kmh <= Ceiling(id)

\* in one tick a train braked to its ceiling by more than an acceleration
\* step, another train's acceleration was cut short by a ceiling below its
\* maximum, and a third gained the whole acceleration step
C17_Witness ==
  /\ Governed
  /\ \E id \in Ids :
       /\ tick_start[id].dispatched
       /\ Ceiling(id) < tick_start[id].speed_kmh - ACCELERATION_KMH_PER_TICK
       /\ trains[id].speed_kmh = Ceiling(id)
  /\ \E id \in Ids :
       /\ tick_start[id].dispatched
       /\ Ceiling(id) < tick_start[id].max_speed_kmh
       /\ Ceiling(id) > tick_start[id].speed_kmh
       /\ Ceiling(id) < tick_start[id].speed_kmh + ACCELERATION_KMH_PER_TICK
       /\ trains[id].speed_kmh = Ceiling(id)
  /\ \E id \in Ids :
       /\ tick_start[id].dispatched
       /\ Ceiling(id) > tick_start[id].speed_kmh + ACCELERATION_KMH_PER_TICK
       /\ trains[id].speed_kmh = tick_start[id].speed_kmh + ACCELERATION_KMH_PER_TICK

\* the current tick has moved the train
Moved(id) == Integrated /\ trains[id].position_km # tick_start[id].position_km

\* at the start of the current tick the second train was more than 200 m
\* plus its own braking distance in front of the first
ClearOf(id, ahead) ==
  (tick_start[ahead].position_km - tick_start[id].position_km)
      * BrakeScale(tick_start[ahead].braking_rate)
    > SAFETY_MARGIN_METERS * UnitsPerMetre * BrakeScale(tick_start[ahead].braking_rate)
      + 625 * tick_start[ahead].speed_kmh * tick_start[ahead].speed_kmh

\* C18: no overtaking: a train strictly ahead of another stays strictly ahead
\* of it in every step, hence after the tick and after any number of further
\* ticks; and a train with a train sorted immediately ahead of it moves in a
\* tick only if that train is more than 200 m plus its braking distance in
\* front of it.
C18_NoOvertaking ==
  /\ [][\A a, b \in Ids :
          trains[b].position_km > trains[a].position_km
            => trains'[b].position_km > trains'[a].position_km]_vars
  /\ [](\A id \in Ids :
          (Moved(id) /\ DirectlyAhead(tick_start, id) # None)
            => ClearOf(id, DirectlyAhead(tick_start, id)))

\* a tick has moved a train that follows another, closing the gap between
\* them, and has held a dispatched train whose leader was strictly ahead of
\* it but not clear
C18_Witness ==
  /\ Integrated
  /\ \E id \in Ids :
       LET ahead == DirectlyAhead(tick_start, id)
       IN  /\ ahead # None
           /\ Moved(id)
           /\ trains[ahead].position_km - trains[id].position_km
                < tick_start[ahead].position_km - tick_start[id].position_km
  /\ \E id \in Ids :
       LET ahead == DirectlyAhead(tick_start, id)
       IN  /\ ahead # None
           /\ tick_start[id].dispatched
           /\ tick_start[id].speed_kmh > 0
           /\ tick_start[ahead].position_km > tick_start[id].position_km
           /\ ~ClearOf(id, ahead)
           /\ ~Moved(id)

\* the train has left the origin and is moving
Underway(id) ==
  /\ trains[id].dispatched
  /\ trains[id].speed_kmh > 0
  /\ trains[id].position_km > 0

\* C19: with the shipped train table and dispatch sequence and both loops
\* scheduled fairly, every train is dispatched and every dispatched train
\* eventually has a positive speed and a position greater than 0: none is
\* held at the origin forever behind a train at the same origin position.
C19_EveryTrainLeaves ==
  \A id \in Ids :
    /\ <>trains[id].dispatched
    /\ trains[id].dispatched ~> Underway(id)

\* Goods_301, first in the stored order and so sorted behind every other
\* train at the origin, is underway, as are all the others
C19_Witness ==
  /\ \A id \in Ids : Underway(id)
  /\ ticks > Len(dispatch_sequence) * MaxTicksPerDispatch

\* the kind of step taken, told by the program counter that moves
TickStep == sim_pc' # sim_pc
DispatchStep == disp_pc' # disp_pc
QueryStep == req_pc' # req_pc \/ path_pc' # path_pc

\* C20: frame conditions. No step changes a train's id, maximum speed,
\* braking rate or priority, the set of trains, or occupied_tracks, and no
\* step returns a dispatched flag to false. A tick changes no dispatched
\* flag (only speeds and positions). A dispatch step changes no speed and no
\* position, and at most the flag of the train it names, from false to true.
\* State and path queries leave the store as it is.
C20_Frame ==
  [][/\ DOMAIN trains' = DOMAIN trains
     /\ simulation_state'.occupied_tracks = simulation_state.occupied_tracks
     /\ \A id \in Ids :
          /\ trains'[id].id = trains[id].id
          /\ trains'[id].max_speed_kmh = trains[id].max_speed_kmh
          /\ trains'[id].braking_rate = trains[id].braking_rate
          /\ trains'[id].priority = trains[id].priority
          /\ trains[id].dispatched => trains'[id].dispatched
     /\ TickStep =>
          \A id \in Ids : trains'[id].dispatched = trains[id].dispatched
     /\ DispatchStep =>
          \A id \in Ids :
            /\ trains'[id].speed_kmh = trains[id].speed_kmh
            /\ trains'[id].position_km = trains[id].position_km
            /\ trains'[id].dispatched # trains[id].dispatched =>
                 /\ disp_pc = "locked"
                 /\ id = sequence[disp_i]
                 /\ ~trains[id].dispatched
                 /\ trains'[id].dispatched
     /\ QueryStep => simulation_state' = simulation_state]_vars

\* a path query has been answered and a state query holds its copy while
\* ticks have moved a train and the dispatcher has released two
C20_Witness ==
  /\ path_pc = "responded"
  /\ req_pc = "copied"
  /\ ticks >= 1
  /\ Len(dispatch_log) >= 2
  /\ \E id \in Ids : trains[id].position_km > 0 /\ trains[id].speed_kmh > 0

====
